---- MODULE Spec2Model ----
(***************************************************************************)
(* Number filters of the template engine (src/builtins/filters/number.rs): *)
(* pluralize, round and filesizeformat.  Every filter is a pure function   *)
(* (value, args) -> Result<Value>; the state machine draws a call's inputs *)
(* in Init, applies one filter, and may pipe an Ok result into a second    *)
(* call with the same arguments ({{ x | round | round }}).                 *)
(*                                                                         *)
(* f64 is modelled as an IEEE-754 binary format with round-to-nearest-even *)
(* of reduced width: MantBits significand bits (f64: 53) and quantum       *)
(* exponents MinExp..MaxExp (f64: -1074..971).  A finite float is          *)
(* (-1)^s * m * 2^e, kept canonical: m in [2^(MantBits-1), 2^MantBits) or  *)
(* e = MinExp (subnormal, zero).  The sign of zero is not kept: f64's ==   *)
(* and serde_json's Value equality do not see it, and no divisor in the    *)
(* code can be -0.0.                                                       *)
(***************************************************************************)
EXTENDS Integers, Sequences, FiniteSets, TLC

MantBits == 6
MaxExp == 25
MinExp == 0 - MaxExp

RECURSIVE Pow2(_)
Pow2(k) == IF k <= 0 THEN 1 ELSE 2 * Pow2(k - 1)

RECURSIVE BitLen(_)
BitLen(n) == IF n = 0 THEN 0 ELSE 1 + BitLen(n \div 2)

Max(a, b) == IF a >= b THEN a ELSE b
Min(a, b) == IF a <= b THEN a ELSE b

Fin(s, m, e) == [t |-> "fin", s |-> s, m |-> m, e |-> e]
Inf(s) == [t |-> "inf", s |-> s, m |-> 0, e |-> 0]
NaN == [t |-> "nan", s |-> 0, m |-> 0, e |-> 0]
Zero == Fin(0, 0, MinExp)

IsFinite(a) == a.t = "fin"
IsZero(a) == a.t = "fin" /\ a.m = 0

\* Round-to-nearest-even of the exact magnitude M * 2^E (plus a nonzero tail
\* below M's last bit when sticky) to the format; overflow gives infinity.
RoundPack(s, M, E, sticky) ==
    IF M = 0 THEN Zero
    ELSE
      LET L == BitLen(M)
          e0 == Max(E + L - MantBits, MinExp)
          shift == e0 - E
      IN IF shift > L + 1 THEN Zero
         ELSE
           LET q == IF shift <= 0 THEN M * Pow2(0 - shift) ELSE M \div Pow2(shift)
               r == IF shift <= 0 THEN 0 ELSE M % Pow2(shift)
               half == IF shift <= 0 THEN 1 ELSE Pow2(shift - 1)
               up == \/ r > half
                     \/ r = half /\ sticky
                     \/ r = half /\ ~sticky /\ q % 2 = 1
               m1 == IF up THEN q + 1 ELSE q
               carry == m1 = Pow2(MantBits)
               m2 == IF carry THEN Pow2(MantBits - 1) ELSE m1
               e2 == IF carry THEN e0 + 1 ELSE e0
           IN IF m2 = 0 THEN Zero
              ELSE IF e2 > MaxExp THEN Inf(s)
              ELSE Fin(s, m2, e2)

\* i64/u64 as f64
ToFloat(n) == IF n < 0 THEN RoundPack(1, 0 - n, 0, FALSE) ELSE RoundPack(0, n, 0, FALSE)

Xor(s1, s2) == (s1 + s2) % 2

Fneg(a) == IF a.t = "nan" \/ IsZero(a) THEN a ELSE [a EXCEPT !.s = 1 - a.s]
Fabs(a) == IF a.t = "nan" THEN a ELSE [a EXCEPT !.s = 0]

Fmul(a, b) ==
    IF a.t = "nan" \/ b.t = "nan" THEN NaN
    ELSE IF a.t = "inf" \/ b.t = "inf"
         THEN IF IsZero(a) \/ IsZero(b) THEN NaN ELSE Inf(Xor(a.s, b.s))
    ELSE RoundPack(Xor(a.s, b.s), a.m * b.m, a.e + b.e, FALSE)

Fdiv(a, b) ==
    IF a.t = "nan" \/ b.t = "nan" THEN NaN
    ELSE IF a.t = "inf" THEN (IF b.t = "inf" THEN NaN ELSE Inf(Xor(a.s, b.s)))
    ELSE IF b.t = "inf" THEN Zero
    ELSE IF IsZero(b) THEN (IF IsZero(a) THEN NaN ELSE Inf(Xor(a.s, b.s)))
    ELSE IF IsZero(a) THEN Zero
    ELSE LET K == MantBits + 2 + BitLen(b.m) - BitLen(a.m)
             num == a.m * Pow2(K)
         IN RoundPack(Xor(a.s, b.s), num \div b.m, a.e - b.e - K, num % b.m # 0)

\* magnitude order of canonical finite floats
MagLess(a, b) == a.e < b.e \/ (a.e = b.e /\ a.m < b.m)

Fadd(a, b) ==
    IF a.t = "nan" \/ b.t = "nan" THEN NaN
    ELSE IF a.t = "inf" THEN (IF b.t = "inf" /\ b.s # a.s THEN NaN ELSE a)
    ELSE IF b.t = "inf" THEN b
    ELSE IF IsZero(a) THEN b
    ELSE IF IsZero(b) THEN a
    ELSE LET big == IF MagLess(a, b) THEN b ELSE a
             sml == IF MagLess(a, b) THEN a ELSE b
             d == big.e - sml.e
         IN IF d > MantBits + 2
            THEN \* the small operand only decides the rounding direction
                 IF big.s = sml.s
                 THEN RoundPack(big.s, big.m * 8, big.e - 3, TRUE)
                 ELSE RoundPack(big.s, big.m * 8 - 1, big.e - 3, TRUE)
            ELSE IF big.s = sml.s
                 THEN RoundPack(big.s, big.m * Pow2(d) + sml.m, sml.e, FALSE)
                 ELSE RoundPack(big.s, big.m * Pow2(d) - sml.m, sml.e, FALSE)

Fsub(a, b) == Fadd(a, Fneg(b))

\* a > b on f64: false when either side is NaN
Fgt(a, b) ==
    IF a.t = "nan" \/ b.t = "nan" THEN FALSE
    ELSE IF a = b THEN FALSE
    ELSE IF a.t = "inf" THEN a.s = 0
    ELSE IF b.t = "inf" THEN b.s = 1
    ELSE IF a.s # b.s THEN a.s = 0
    ELSE IF a.s = 0 THEN MagLess(b, a) ELSE MagLess(a, b)

One == ToFloat(1)
Ten == ToFloat(10)
\* f64::EPSILON: the distance from 1.0 to the next float
EPSILON == Fin(0, Pow2(MantBits - 1), 0 - 2 * (MantBits - 1))


\* f64::round (half away from zero), f64::ceil, f64::floor
RoundPrim(a, mode) ==
    IF a.t # "fin" \/ a.e >= 0 \/ a.m = 0 THEN a
    ELSE LET k == 0 - a.e
             whole == k <= MantBits
             ip == IF whole THEN a.m \div Pow2(k) ELSE 0
             fr == IF whole THEN a.m % Pow2(k) ELSE a.m
             halfOrMore == whole /\ 2 * fr >= Pow2(k)
             mag == CASE mode = "round" -> IF halfOrMore THEN ip + 1 ELSE ip
                      [] mode = "ceil" -> IF a.s = 0 /\ fr > 0 THEN ip + 1 ELSE ip
                      [] mode = "floor" -> IF a.s = 1 /\ fr > 0 THEN ip + 1 ELSE ip
         IN RoundPack(a.s, mag, 0, FALSE)

Fround(a) == RoundPrim(a, "round")
Fceil(a) == RoundPrim(a, "ceil")
Ffloor(a) == RoundPrim(a, "floor")

\* f64::powi: square-and-multiply on |b|, reciprocal of the product for b < 0
RECURSIVE PowLoop(_, _, _)
PowLoop(a, pow, mul) ==
    LET mul1 == IF pow % 2 = 1 THEN Fmul(mul, a) ELSE mul
        pow1 == pow \div 2
    IN IF pow1 = 0 THEN mul1 ELSE PowLoop(Fmul(a, a), pow1, mul1)

Powi(a, b) ==
    IF b < 0 THEN Fdiv(One, PowLoop(a, 0 - b, One)) ELSE PowLoop(a, b, One)

(***************************************************************************)
(* serde_json::Value: Null, Bool, Number (integer or float), String.       *)
(***************************************************************************)
VNull == [tag |-> "Null"]
VBool(b) == [tag |-> "Bool", b |-> b]
VInt(n) == [tag |-> "Int", n |-> n]
VFloat(f) == [tag |-> "Float", f |-> f]
VString(s) == [tag |-> "String", s |-> s]

IsNumber(v) == v.tag \in {"Int", "Float"}

\* to_value(f64): a Number when finite, Null for NaN and the infinities
to_value_f64(f) == IF IsFinite(f) THEN VFloat(f) ELSE VNull

Ok(v) == [ok |-> TRUE, val |-> v]
Err(e) == [ok |-> FALSE, err |-> e]

\* from_value::<ty>(val): exact-variant extraction; integers widen to f64.
\* Every integer drawn as an input lies in the i32 range and, when it is not
\* negative, in the usize range.
from_value(ty, val) ==
    CASE ty = "f64" ->
           IF val.tag = "Int" THEN Ok(ToFloat(val.n))
           ELSE IF val.tag = "Float" THEN Ok(val.f)
           ELSE Err("invalid type")
      [] ty = "String" ->
           IF val.tag = "String" THEN Ok(val.s) ELSE Err("invalid type")
      [] ty = "i32" ->
           IF val.tag = "Int" THEN Ok(val.n) ELSE Err("invalid type")
      [] ty = "usize" ->
           IF val.tag = "Int" /\ val.n >= 0 THEN Ok(val.n) ELSE Err("invalid value")

TypeMismatch(filter, arg, ty, val) ==
    [kind |-> "TypeMismatch", filter |-> filter, arg |-> arg, expected |-> ty, got |-> val]

\* try_get_value!(filter, arg, ty, val): the typed value, or the early return
try_get_value(filter, arg, ty, val) ==
    LET r == from_value(ty, val)
    IN IF r.ok THEN r ELSE Err(TypeMismatch(filter, arg, ty, val))

Has(args, key) == key \in DOMAIN args

\* match args.get(key) { Some(val) => try_get_value!(..), None => default }
GetArg(filter, args, key, ty, default) ==
    IF Has(args, key) THEN try_get_value(filter, key, ty, args[key]) ELSE Ok(default)

(***************************************************************************)
(* pluralize                                                               *)
(***************************************************************************)
IsPlural_noabs(num) == Fgt(Fabs(Fsub(num, One)), EPSILON)

IsPlural(num) == Fgt(Fabs(Fsub(Fabs(num), One)), EPSILON)

\* coerces only the suffix it is about to return
pluralize_lazy(value, args) ==
    LET num == try_get_value("pluralize", "value", "f64", value)
    IN IF ~num.ok THEN num
       ELSE LET chosen == IF IsPlural(num.val)
                          THEN GetArg("pluralize", args, "plural", "String", "s")
                          ELSE GetArg("pluralize", args, "singular", "String", "")
            IN IF ~chosen.ok THEN chosen ELSE Ok(VString(chosen.val))

pluralize(value, args) ==
    LET num == try_get_value("pluralize", "value", "f64", value)
        plural == GetArg("pluralize", args, "plural", "String", "s")
        singular == GetArg("pluralize", args, "singular", "String", "")
    IN IF ~num.ok THEN num
       ELSE IF ~plural.ok THEN plural
       ELSE IF ~singular.ok THEN singular
       ELSE IF IsPlural(num.val) THEN Ok(VString(plural.val))
       ELSE Ok(VString(singular.val))

(***************************************************************************)
(* round                                                                   *)
(***************************************************************************)
Multiplier_offbyone(precision) == Powi(Ten, precision + 1)

Multiplier(precision) == IF precision = 0 THEN One ELSE Powi(Ten, precision)

InvalidMethod(method) ==
    [kind |-> "InvalidArgument", filter |-> "round", arg |-> "method",
     expected |-> "common, ceil and floor", got |-> VString(method)]

\* an unknown method falls back to common
RoundWith_fallback(method, num, multiplier) ==
    CASE method = "ceil" -> Ok(to_value_f64(Fdiv(Fceil(Fmul(multiplier, num)), multiplier)))
      [] method = "floor" -> Ok(to_value_f64(Fdiv(Ffloor(Fmul(multiplier, num)), multiplier)))
      [] OTHER -> Ok(to_value_f64(Fdiv(Fround(Fmul(multiplier, num)), multiplier)))

RoundWith(method, num, multiplier) ==
    CASE method = "common" -> Ok(to_value_f64(Fdiv(Fround(Fmul(multiplier, num)), multiplier)))
      [] method = "ceil" -> Ok(to_value_f64(Fdiv(Fceil(Fmul(multiplier, num)), multiplier)))
      [] method = "floor" -> Ok(to_value_f64(Fdiv(Ffloor(Fmul(multiplier, num)), multiplier)))
      [] OTHER -> Err(InvalidMethod(method))

\* coerces the arguments before the primary value
round_args_first(value, args) ==
    LET num == try_get_value("round", "value", "f64", value)
        method == GetArg("round", args, "method", "String", "common")
        precision == GetArg("round", args, "precision", "i32", 0)
    IN IF ~method.ok THEN method
       ELSE IF ~precision.ok THEN precision
       ELSE IF ~num.ok THEN num
       ELSE RoundWith(method.val, num.val, Multiplier(precision.val))

\* rejects an unknown method as soon as the method is read
round_method_early(value, args) ==
    LET num == try_get_value("round", "value", "f64", value)
        method == GetArg("round", args, "method", "String", "common")
        precision == GetArg("round", args, "precision", "i32", 0)
    IN IF ~num.ok THEN num
       ELSE IF ~method.ok THEN method
       ELSE IF method.val \notin {"common", "ceil", "floor"} THEN Err(InvalidMethod(method.val))
       ELSE IF ~precision.ok THEN precision
       ELSE RoundWith(method.val, num.val, Multiplier(precision.val))

round(value, args) ==
    LET num == try_get_value("round", "value", "f64", value)
        method == GetArg("round", args, "method", "String", "common")
        precision == GetArg("round", args, "precision", "i32", 0)
    IN IF ~num.ok THEN num
       ELSE IF ~method.ok THEN method
       ELSE IF ~precision.ok THEN precision
       ELSE RoundWith(method.val, num.val, Multiplier(precision.val))

(***************************************************************************)
(* filesizeformat: humansize's file_size with file_size_opts::CONVENTIONAL *)
(* (divider 1024, units B KB MB ..., two decimal places, none when the     *)
(* scaled size is whole, a space before the unit).  The f64 `size` is kept *)
(* as the exact fraction num / den: dividing by 1024 is exact in f64.      *)
(***************************************************************************)
Divider == 1024
\* the first units of the scale; the byte counts drawn stay below 2^30
SCALE_DECIMAL == <<"B", "KB", "MB", "GB">>

\* while size >= divider { size /= divider; scale_idx += 1 }
RECURSIVE ScaleLoop(_, _, _, _)
ScaleLoop(num, den, idx, divider) ==
    IF num >= den * divider THEN ScaleLoop(num, den * divider, idx + 1, divider)
    ELSE [den |-> den, idx |-> idx]

TwoDigits(h) == IF h < 10 THEN "0" \o ToString(h) ELSE ToString(h)

\* format!("{:.*}", places, size): round-half-even on the exact value
FormatFixed(num, den, places) ==
    LET w == num \div den
        r == num % den
    IN IF places = 0 THEN ToString(w)
       ELSE LET t == 100 * r
                q == t \div den
                rem == t % den
                h == IF 2 * rem > den \/ (2 * rem = den /\ q % 2 = 1) THEN q + 1 ELSE q
            IN IF h = 100 THEN ToString(w + 1) \o ".00"
               ELSE ToString(w) \o "." \o TwoDigits(h)

FileSizeWith(num, divider) ==
    IF num < 0 THEN Err("Tried calling file_size on a negative value")
    ELSE LET sc == ScaleLoop(num, 1, 0, divider)
             places == IF num % sc.den = 0 THEN 0 ELSE 2
         IN Ok(FormatFixed(num, sc.den, places) \o " " \o SCALE_DECIMAL[sc.idx + 1])

file_size_kilo(num) == FileSizeWith(num, 1000)

file_size(num) == FileSizeWith(num, Divider)

NegativeSize(num) ==
    [kind |-> "NegativeSize", filter |-> "filesizeformat", arg |-> "value",
     expected |-> "usize", got |-> VInt(num)]

filesizeformat(value, args) ==
    LET num == try_get_value("filesizeformat", "value", "usize", value)
    IN IF ~num.ok THEN num
       ELSE LET s == file_size(num.val)
            IN IF s.ok THEN Ok(VString(s.val)) ELSE Err(NegativeSize(num.val))

(***************************************************************************)
(* The calls: inputs, state and actions                                    *)
(***************************************************************************)
BigPrec == 10
MaxPipe == 1

IntInputs == {-5, -1, 0, 1, 2, 3, 500, 1000, 1023, 1024, 1152, 1536, 10240,
              1048575, 1048576, 123456789}

\* every float of [1/8, 4) and its negation, zero, the least subnormal and
\* the largest finite float
FloatInputs ==
    {Fin(s, m, e) : s \in {0, 1}, m \in Pow2(MantBits - 1)..(Pow2(MantBits) - 1),
                    e \in (0 - 2 - MantBits)..(2 - MantBits)}
    \cup {Zero, Fin(0, 1, MinExp), Fin(0, Pow2(MantBits) - 1, MaxExp),
          Fin(1, Pow2(MantBits) - 1, MaxExp)}

NonNumeric == {VNull, VBool(TRUE), VString("3")}

Values == {VInt(n) : n \in IntInputs} \cup {VFloat(f) : f \in FloatInputs} \cup NonNumeric

Absent == [tag |-> "Absent"]

Precisions == {0 - BigPrec, -2, -1, 0, 1, 2, BigPrec}
PluralOpts == {Absent, VString("es"), VInt(7)}
SingularOpts == {Absent, VString("y"), VNull}
MethodOpts == {Absent, VString("common"), VString("ceil"), VString("floor"),
               VString("bogus"), VInt(1)}
PrecisionOpts == {Absent, VFloat(ToFloat(2)), VString("2")} \cup {VInt(p) : p \in Precisions}

MkArgs(p, s, m, pr) ==
    LET all == [plural |-> p, singular |-> s, method |-> m, precision |-> pr]
    IN [k \in {x \in DOMAIN all : all[x] # Absent} |-> all[k]]

ArgMaps ==
    {MkArgs(p, s, Absent, Absent) : p \in PluralOpts, s \in SingularOpts}
    \cup {MkArgs(Absent, Absent, m, pr) : m \in MethodOpts, pr \in PrecisionOpts}
    \cup {MkArgs(p, VString("y"), m, pr) :
            p \in {VString("es"), VInt(7)},
            m \in {VString("floor"), VString("bogus")},
            pr \in {VInt(1), VString("2")}}

NoCall == [ok |-> FALSE, err |-> [kind |-> "none"]]

VARIABLES value, args, filter, result, prev, pipes
vars == <<value, args, filter, result, prev, pipes>>

Init ==
    /\ value \in Values
    /\ args \in ArgMaps
    /\ filter = "none"
    /\ result = NoCall
    /\ prev = [filter |-> "none", value |-> VNull, result |-> NoCall]
    /\ pipes = 0

Pluralize ==
    /\ filter = "none"
    /\ filter' = "pluralize"
    /\ result' = pluralize(value, args)
    /\ UNCHANGED <<value, args, prev, pipes>>

Round ==
    /\ filter = "none"
    /\ filter' = "round"
    /\ result' = round(value, args)
    /\ UNCHANGED <<value, args, prev, pipes>>

Filesizeformat ==
    /\ filter = "none"
    /\ filter' = "filesizeformat"
    /\ result' = filesizeformat(value, args)
    /\ UNCHANGED <<value, args, prev, pipes>>

\* the renderer feeds an Ok result to the next filter of the expression
Pipe ==
    /\ filter # "none"
    /\ result.ok
    /\ pipes < MaxPipe
    /\ prev' = [filter |-> filter, value |-> value, result |-> result]
    /\ value' = result.val
    /\ filter' = "none"
    /\ result' = NoCall
    /\ pipes' = pipes + 1
    /\ UNCHANGED args

Next == Pluralize \/ Round \/ Filesizeformat \/ Pipe

Spec == Init /\ [][Next]_vars
(***************************************************************************)
(* Properties                                                              *)
(***************************************************************************)
Called(f) == filter = f
ErrIs(kind, f, arg) ==
    /\ ~result.ok
    /\ result.err.kind = kind
    /\ result.err.filter = f
    /\ result.err.arg = arg

StringOr(a, key, default) == IF Has(a, key) THEN a[key].s ELSE default
IsStringArg(a, key) == Has(a, key) => a[key].tag = "String"
IsIntArg(a, key) == Has(a, key) => a[key].tag = "Int"
Methods == {"common", "ceil", "floor"}
MethodOf(a) == StringOr(a, "method", "common")
PrecisionOf(a) == IF Has(a, "precision") THEN a["precision"].n ELSE 0
FloatOf(v) == IF v.tag = "Int" THEN ToFloat(v.n) ELSE v.f

\* | |v| - 1 | <= 2^-(MantBits-1) in exact arithmetic, counted in quarters of
\* EPSILON: |v| = m * 2^k quarters and 1 = 2^(MantBits+1) quarters.  A float
\* with k < 0 is below 1/4 and one with k > 2 is at least 2.
NearOne(v) ==
    IF v.tag = "Int" THEN v.n \in {1, -1}
    ELSE LET k == v.f.e + MantBits + 1
         IN /\ k \in 0..2
            /\ v.f.m * Pow2(k) - Pow2(MantBits + 1) \in -4..4

ExactRounded(y, method) ==
    IF y.t # "fin" \/ y.e >= 0 THEN y
    ELSE LET k == Min(0 - y.e, MantBits + 1)
             Y == IF y.s = 1 THEN 0 - y.m ELSE y.m
             U == Pow2(k)
             Cands == (0 - Pow2(MantBits))..Pow2(MantBits)
             n == CASE method = "ceil" ->
                         CHOOSE c \in Cands : c * U >= Y /\ (c - 1) * U < Y
                    [] method = "floor" ->
                         CHOOSE c \in Cands : c * U <= Y /\ (c + 1) * U > Y
                    [] method = "common" ->
                         CHOOSE c \in Cands :
                            \/ 2 * (c * U - Y) < U /\ 2 * (Y - c * U) < U
                            \/ Y >= 0 /\ 2 * (c * U - Y) = U
                            \/ Y < 0 /\ 2 * (Y - c * U) = U
         IN ToFloat(n)

ScaledRounding(num, method, precision) ==
    LET tenp == Powi(Ten, precision)
    IN Fdiv(ExactRounded(Fmul(num, tenp), method), tenp)

RoundArgsValid ==
    /\ IsNumber(value)
    /\ IsStringArg(args, "method") /\ MethodOf(args) \in Methods
    /\ IsIntArg(args, "precision")

\* C2: for a numeric v, an integer precision p and a method of common, ceil,
\* floor (defaults common and 0), round returns the number
\* R(v * 10^p) / 10^p, R being half-away-from-zero, ceiling or floor.
C2_RoundIsScaledRounding ==
    (Called("round") /\ RoundArgsValid)
    => result = Ok(VFloat(ScaledRounding(FloatOf(value), MethodOf(args), PrecisionOf(args))))

\* The same statement where the scaled computation stays finite: it is what
\* the code computes whenever it returns a number.
RoundScaledWhenFinite ==
    (Called("round") /\ RoundArgsValid /\ result.ok /\ result.val # VNull)
    => result = Ok(VFloat(ScaledRounding(FloatOf(value), MethodOf(args), PrecisionOf(args))))

BogusMethodOnly ==
    /\ Has(args, "method")
    /\ args["method"].tag = "String"
    /\ args["method"].s \notin Methods

\* C3 as stated: round(x, {method: m}) with m a string other than common,
\* ceil, floor fails with InvalidArgument on `method` for EVERY primary
\* value x.
C3_BogusMethodAnyValue ==
    (Called("round") /\ DOMAIN args = {"method"} /\ BogusMethodOnly)
    => /\ ErrIs("InvalidArgument", "round", "method")
       /\ result.err.got = args["method"]

\* C3 amended: the same for every NUMERIC primary value x (precision absent
\* or an integer); no result value is produced.
C3_BogusMethodNumericValue ==
    (Called("round") /\ IsNumber(value) /\ BogusMethodOnly /\ IsIntArg(args, "precision"))
    => /\ ErrIs("InvalidArgument", "round", "method")
       /\ result.err.got = args["method"]

C3_Witness ==
    /\ Called("round")
    /\ value = VInt(2)
    /\ args = MkArgs(Absent, Absent, VString("bogus"), Absent)
    /\ ErrIs("InvalidArgument", "round", "method")

\* C4: filesizeformat on a negative numeric input fails with the dedicated
\* NegativeSize error, not with the coercion helper's TypeMismatch.
C4_NegativeSizeError ==
    (Called("filesizeformat") /\ value.tag = "Int" /\ value.n < 0)
    => /\ ErrIs("NegativeSize", "filesizeformat", "value")
       /\ result.err.got = value

\* "<whole>.<hh> <unit>" or "<whole> <unit>"
Rendered(w, h, unit, decimals) ==
    IF decimals THEN ToString(w) \o "." \o TwoDigits(h) \o " " \o unit
    ELSE ToString(w) \o " " \o unit

\* n shown in the largest unit of step `base` in which it is >= 1, with two
\* decimals rounded to nearest; wholeBare says whether a whole magnitude
\* drops its decimals.
ShownInUnits(str, n, base, units, wholeBare) ==
    \E k \in 0..2 :
      LET D == IF k = 0 THEN 1 ELSE IF k = 1 THEN base ELSE base * base
          w == n \div D
          r == n % D
      IN /\ k = 0 \/ n >= D
         /\ k = 2 \/ n < D * base
         /\ IF r = 0 /\ wholeBare
            THEN str = Rendered(w, 0, units[k + 1], FALSE)
            ELSE \E h \in 0..100 :
                   /\ 2 * (h * D - 100 * r) <= D
                   /\ 2 * (100 * r - h * D) <= D
                   /\ str = IF h = 100 THEN Rendered(w + 1, 0, units[k + 1], TRUE)
                            ELSE Rendered(w, h, units[k + 1], TRUE)

ByteCount == Called("filesizeformat") /\ value.tag = "Int" /\ value.n >= 0

\* C5 as stated: a byte count n >= 0 is shown in power-of-1000 units (bytes,
\* kB, MB, ...), always with two decimals, whatever the arguments.
C5_DecimalUnits ==
    ByteCount
    => /\ result.ok
       /\ result.val.tag = "String"
       /\ ShownInUnits(result.val.s, value.n, 1000, <<"bytes", "kB", "MB">>, FALSE)

\* C5 amended: a byte count n >= 0 is shown in steps of 1024 labelled B, KB,
\* MB, ..., in the largest unit in which it is >= 1 (B for 0), with two
\* decimals rounded to nearest when the magnitude has a fraction and none
\* when it is whole, a space before the unit; 123456789 gives "117.74 MB";
\* the argument map does not change the result.
C5_BinarySteps ==
    ByteCount
    => /\ result.ok
       /\ result.val.tag = "String"
       /\ ShownInUnits(result.val.s, value.n, 1024, <<"B", "KB", "MB">>, TRUE)
       /\ (value.n = 123456789 => result.val.s = "117.74 MB")
       /\ result = filesizeformat(value, <<>>)

C5_Witness ==
    /\ Called("filesizeformat")
    /\ value = VInt(123456789)
    /\ args = MkArgs(VInt(7), VString("y"), VString("bogus"), VString("2"))
    /\ result = Ok(VString("117.74 MB"))

\* the call at hand is round applied to the result of round, same arguments
RoundOfRound == Called("round") /\ prev.filter = "round"

\* C6 as stated: round(round(x)) = round(x) for every numeric x, every
\* integer precision and every method.  Stated where the first rounding
\* returned a number.
C6_Idempotent ==
    (RoundOfRound /\ IsNumber(prev.value) /\ prev.result.val.tag = "Float")
    => result = prev.result

\* C6 amended: at precision 0 (absent or given) round(round(x)) = round(x)
\* for every numeric x and every method.
C6_IdempotentAtZero ==
    (RoundOfRound /\ IsNumber(prev.value) /\ PrecisionOf(args) = 0 /\ IsIntArg(args, "precision"))
    => result = prev.result

C6_Witness ==
    /\ RoundOfRound
    /\ prev.value = VFloat(Fin(0, Pow2(MantBits - 1) + 1, 1 - MantBits))
    /\ args = MkArgs(Absent, Absent, VString("ceil"), VInt(0))
    /\ result = Ok(VFloat(ToFloat(2)))
    /\ result = prev.result

\* C7: a string, or any other non-numeric value, as the primary value of
\* pluralize, round or filesizeformat fails with TypeMismatch naming that
\* filter and `value`, whatever the arguments.
C7_NonNumericValue ==
    (filter # "none" /\ ~IsNumber(value))
    => /\ ErrIs("TypeMismatch", filter, "value")
       /\ result.err.got = value

C7_Witness ==
    /\ Called("round")
    /\ value = VString("3")
    /\ args = MkArgs(Absent, Absent, VInt(1), VString("2"))
    /\ ErrIs("TypeMismatch", "round", "value")

Defaults == [plural |-> VString("s"), singular |-> VString(""),
             method |-> VString("common"), precision |-> VInt(0)]
WithDefaults(a, keys) == [k \in DOMAIN a \cup keys |-> IF Has(a, k) THEN a[k] ELSE Defaults[k]]

\* C8: an absent plural, singular, method or precision behaves as the key set
\* to its default ("s", "", "common", 0); a present key of the wrong type
\* fails the call with TypeMismatch naming it (the first such key in the
\* order plural, singular resp. method, precision), also when the key would
\* not be used for the result.
C8_DefaultsAndTypes ==
    /\ Called("pluralize")
         => /\ result = pluralize(value, WithDefaults(args, {"plural", "singular"}))
            /\ (IsNumber(value) /\ ~IsStringArg(args, "plural"))
                 => ErrIs("TypeMismatch", "pluralize", "plural")
            /\ (IsNumber(value) /\ IsStringArg(args, "plural") /\ ~IsStringArg(args, "singular"))
                 => ErrIs("TypeMismatch", "pluralize", "singular")
    /\ Called("round")
         => /\ result = round(value, WithDefaults(args, {"method", "precision"}))
            /\ (IsNumber(value) /\ ~IsStringArg(args, "method"))
                 => ErrIs("TypeMismatch", "round", "method")
            /\ (IsNumber(value) /\ IsStringArg(args, "method") /\ ~IsIntArg(args, "precision"))
                 => ErrIs("TypeMismatch", "round", "precision")

C8_Witness ==
    /\ Called("pluralize")
    /\ value = VInt(1)
    /\ args = MkArgs(VInt(7), Absent, Absent, Absent)
    /\ ErrIs("TypeMismatch", "pluralize", "plural")

IsWhole(f) == f.t = "fin" /\ (f.m = 0 \/ f.e >= 0 \/ (0 - f.e <= MantBits /\ f.m % Pow2(0 - f.e) = 0))

\* C9: whenever round succeeds its output is a float number, never null or
\* another variant, also when 10^precision overflows or underflows; at
\* precision 0 it is a float equal to a whole number.
C9_RoundOkIsFloat ==
    (Called("round") /\ result.ok)
    => /\ result.val.tag = "Float"
       /\ (PrecisionOf(args) = 0 => IsWhole(result.val.f))

\* C10: round reports the first failure in the order: the value's type, the
\* method's type, the precision's type, the method's spelling.
C10_ValidationOrder ==
    Called("round")
    => IF ~IsNumber(value) THEN ErrIs("TypeMismatch", "round", "value")
       ELSE IF ~IsStringArg(args, "method") THEN ErrIs("TypeMismatch", "round", "method")
       ELSE IF ~IsIntArg(args, "precision") THEN ErrIs("TypeMismatch", "round", "precision")
       ELSE IF MethodOf(args) \notin Methods THEN ErrIs("InvalidArgument", "round", "method")
       ELSE result.ok

C10_Witness ==
    /\ Called("round")
    /\ IsNumber(value)
    /\ args = MkArgs(Absent, Absent, VString("bogus"), VString("2"))
    /\ ErrIs("TypeMismatch", "round", "precision")
====
